---- MODULE Spec2Model ----
(***************************************************************************)
(* Model of the two client scripts of beats_and_shapes.                    *)
(*                                                                         *)
(*   Flow A  comfy_gen.py      : POST a workflow to the local generation   *)
(*                               server, poll /history/{prompt_id} every   *)
(*                               5 seconds, print the produced videos.     *)
(*   Flow B  generate_music.py : one POST to the music API, write the      *)
(*                               returned bytes to <filename>.mp3.         *)
(*                                                                         *)
(* Everything a script does that the outside can see (requests, responses, *)
(* sleeps, printed lines) is appended to a trace, in program order.        *)
(***************************************************************************)
EXTENDS Integers, Sequences, FiniteSets, TLC

VARIABLES pc, prompt_id, trace, serverHistory, clock, exitCode,
          b_pc, argv, fs, fs0, response, b_trace, b_exit

varsA == <<pc, prompt_id, trace, serverHistory, clock, exitCode>>
varsB == <<b_pc, argv, fs, fs0, response, b_trace, b_exit>>
vars == <<varsA, varsB>>

(***************************************************************************)
(* Bounds of the model.                                                    *)
(***************************************************************************)
\* status requests a run of Flow A may issue
MaxPolls == 4
\* output slots in a result record
MaxSlots == 2
\* artifact descriptors in one result record
MaxEntries == 3

(***************************************************************************)
(* Trace events.                                                           *)
(***************************************************************************)
Ev(k, s, n) == [k |-> k, s |-> s, n |-> n]
EvPrint(line) == Ev("print", line, 0)
EvPost(url) == Ev("POST", url, 0)
EvGet(url) == Ev("GET", url, 0)
EvResp(what) == Ev("resp", what, 0)
EvSleep(secs) == Ev("sleep", "", secs)

Indices(tr, k) == {i \in DOMAIN tr : tr[i].k = k}
Count(tr, k) == Cardinality(Indices(tr, k))

(***************************************************************************)
(* JSON values as json.loads returns them: an object is a Python dict      *)
(* (obj: a function on its keys), an array a list (items), anything else   *)
(* a scalar.                                                               *)
(***************************************************************************)
NoObj == [k \in {} |-> 0]
JObject(m) == [type |-> "object", obj |-> m, items |-> {}]
JArray(S) == [type |-> "array", obj |-> NoObj, items |-> S]
JNumber == [type |-> "number", obj |-> NoObj, items |-> {}]

\* An exception is known by str(e), the text the handler prints; "" is none.
KeyError(key) == "'" \o key \o "'"
NotIterable == "argument of type 'int' is not iterable"
NotSubscriptable(type) ==
    IF type = "array" THEN "list indices must be integers or slices, not str"
    ELSE "'int' object is not subscriptable"
TransportError(kind) ==
    IF kind = "URLError" THEN "<urlopen error [Errno 111] Connection refused>"
    ELSE "Expecting value: line 1 column 1 (char 0)"

\* Python's  key in v
PyIn(key, v) ==
    CASE v.type = "object" -> [exc |-> "", val |-> key \in DOMAIN v.obj]
      [] v.type = "array" -> [exc |-> "", val |-> key \in v.items]
      [] OTHER -> [exc |-> NotIterable, val |-> FALSE]

\* Python's  v[key]  for a string key
PyGet(v, key) ==
    CASE v.type = "object" /\ key \in DOMAIN v.obj -> [exc |-> "", val |-> v.obj[key]]
      [] v.type = "object" -> [exc |-> KeyError(key), val |-> NoObj]
      [] OTHER -> [exc |-> NotSubscriptable(v.type), val |-> NoObj]

(***************************************************************************)
(* Flow A: what the server may answer.                                     *)
(***************************************************************************)
Ids == {"id1", ""}
OldId == "old"

PromptUrl == "http://127.0.0.1:8000/prompt"
\* variant: the identifier is left out of the status URL
HistoryUrl_NoId(id) == "http://127.0.0.1:8000/history/"
HistoryUrl(id) == "http://127.0.0.1:8000/history/" \o id

\* artifact descriptors: with a filename, or without one
Entries == {[filename |-> "a.mp4"], [format |-> "mp4"]}
RECURSIVE SeqsUpTo(_, _)
SeqsUpTo(S, n) ==
    IF n = 0 THEN {<<>>}
    ELSE LET shorter == SeqsUpTo(S, n - 1)
         IN shorter \cup {Append(q, e) : q \in {p \in shorter : Len(p) = n - 1}, e \in S}
EntryLists == SeqsUpTo(Entries, MaxEntries)
\* an output slot: the dict of one node, holding a list under one key
\* (the code never reads a list kept under another key: one such slot stands for all)
Slots == {[videos |-> l] : l \in EntryLists} \cup {[images |-> <<[filename |-> "a.png"]>>]}
\* a result record: with its outputs (one slot per node, in the dict's order), or without
RECURSIVE VideoCount(_)
VideoCount(outputs) ==
    IF outputs = <<>> THEN 0
    ELSE (IF "videos" \in DOMAIN Head(outputs) THEN Len(Head(outputs).videos) ELSE 0)
           + VideoCount(Tail(outputs))
Records ==
    {[outputs |-> o] : o \in {q \in SeqsUpTo(Slots, MaxSlots) : VideoCount(q) <= MaxEntries}}
    \cup {[status |-> "failed"]}

\* the answers to POST /prompt
PostResponses ==
    {[kind |-> "URLError", val |-> JNumber], [kind |-> "JSONDecodeError", val |-> JNumber]}
    \cup {[kind |-> "json", val |-> JObject([prompt_id |-> id])] : id \in Ids}
    \cup {[kind |-> "json", val |-> JObject([error |-> "invalid prompt"])],
          [kind |-> "json", val |-> JArray({})]}

\* the answers to GET /history/{id}: the server's history, or something else
GetResponses(hist, id) ==
    {[kind |-> "URLError", val |-> JNumber], [kind |-> "JSONDecodeError", val |-> JNumber],
     [kind |-> "json", val |-> JObject(hist)],
     [kind |-> "json", val |-> JArray({id})],
     [kind |-> "json", val |-> JNumber]}

(***************************************************************************)
(* Flow A: the functions of comfy_gen.py.                                  *)
(***************************************************************************)
\* urlopen + json.loads: the decoded body, or the exception raised
Fetch(resp) ==
    IF resp.kind = "json" THEN [exc |-> "", val |-> resp.val]
    ELSE [exc |-> TransportError(resp.kind), val |-> JNumber]

\* what came back on the wire for POST /prompt
DescribePost(resp) ==
    IF resp.kind # "json" THEN resp.kind
    ELSE IF resp.val.type = "object" /\ "prompt_id" \in DOMAIN resp.val.obj
         THEN "prompt_id=" \o resp.val.obj.prompt_id
         ELSE "no prompt_id"

\* what came back on the wire for GET /history/{id}
DescribeGet(resp, id) ==
    IF resp.kind # "json" THEN resp.kind
    ELSE CASE resp.val.type = "object" /\ id \in DOMAIN resp.val.obj -> "has id"
           [] resp.val.type = "object" -> "no id"
           [] resp.val.type = "array" /\ id \in resp.val.items -> "lists id"
           [] OTHER -> "not a mapping"

queue_prompt(resp) ==
    [events |-> <<EvPost(PromptUrl), EvResp(DescribePost(resp))>>, ret |-> Fetch(resp)]

check_status(id, resp) ==
    [events |-> <<EvGet(HistoryUrl(id)), EvResp(DescribeGet(resp, id))>>, ret |-> Fetch(resp)]

SleepInterval == 5

\* variant: only the first video of a slot is printed
PrintVideos_FirstOnly(videos) ==
    IF videos = <<>> THEN [events |-> <<>>, exc |-> ""]
    ELSE IF "filename" \notin DOMAIN Head(videos)
         THEN [events |-> <<>>, exc |-> KeyError("filename")]
         ELSE [events |-> <<EvPrint("Video saved as: " \o Head(videos).filename)>>, exc |-> ""]

\* for video in outputs[node_id]['videos']: print(video['filename'])
RECURSIVE PrintVideos(_)
PrintVideos(videos) ==
    IF videos = <<>> THEN [events |-> <<>>, exc |-> ""]
    ELSE IF "filename" \notin DOMAIN Head(videos)
         THEN [events |-> <<>>, exc |-> KeyError("filename")]
         ELSE LET rest == PrintVideos(Tail(videos))
              IN [events |-> <<EvPrint("Video saved as: " \o Head(videos).filename)>>
                                 \o rest.events,
                  exc |-> rest.exc]

HasVideos(slot) == "videos" \in DOMAIN slot

\* for node_id in outputs: if 'videos' in outputs[node_id]: ...
RECURSIVE PrintOutputs(_)
PrintOutputs(outputs) ==
    IF outputs = <<>> THEN [events |-> <<>>, exc |-> ""]
    ELSE LET first == IF HasVideos(Head(outputs))
                      THEN PrintVideos(Head(outputs).videos)
                      ELSE [events |-> <<>>, exc |-> ""]
         IN IF first.exc # "" THEN first
            ELSE LET rest == PrintOutputs(Tail(outputs))
                 IN [events |-> first.events \o rest.events, exc |-> rest.exc]

\* the body of  if prompt_id in history:  up to the break
Extract(history, id) ==
    LET rec == PyGet(history, id)
        done == <<EvPrint("Generation complete!")>>
    IN IF rec.exc # "" THEN [events |-> done, exc |-> rec.exc]
       ELSE IF "outputs" \notin DOMAIN rec.val
            THEN [events |-> done, exc |-> KeyError("outputs")]
            ELSE LET p == PrintOutputs(rec.val.outputs)
                 IN [events |-> done \o p.events, exc |-> p.exc]

IsReady(history, id) == PyIn(id, history)

\* variant: the break is missing
AfterReady_NoBreak(exc) == IF exc = "" THEN "sleep" ELSE "raise"

\* line 55: leave the loop, unless the extraction raised
AfterReady(exc) == IF exc = "" THEN "break" ELSE "raise"

\* one pass of the while True loop, up to the sleep:
\* next is "break", "sleep" or "raise"
LoopBody(id, resp) ==
    LET st == check_status(id, resp)
        ready == IsReady(st.ret.val, id)
    IN IF st.ret.exc # ""
       THEN [events |-> st.events, next |-> "raise", exc |-> st.ret.exc]
       ELSE IF ready.exc # ""
       THEN [events |-> st.events, next |-> "raise", exc |-> ready.exc]
       ELSE IF ready.val
       THEN LET x == Extract(st.ret.val, id)
            IN [events |-> st.events \o x.events, next |-> AfterReady(x.exc), exc |-> x.exc]
       ELSE [events |-> st.events, next |-> "sleep", exc |-> ""]

\* variant: the handler swallows the exception
Handler_Swallow(exc) == <<>>

\* except Exception as e: print(f"Error: {e}")
Handler(exc) == <<EvPrint("Error: " \o exc)>>

\* the exit status of a script that runs off its end
NormalExit == 0
\* the exit statuses a process has returned: none while it runs
Running == <<>>
Exited(status) == <<status>>

\* generate_music.py's  response  before the request is made
NoResponse == [kind |-> "none", status_code |-> 0, content |-> <<>>]

(***************************************************************************)
(* Flow A: the state machine.                                              *)
(***************************************************************************)
IdleB ==
    /\ b_pc = "idle"
    /\ argv = <<>>
    /\ fs = NoObj
    /\ fs0 = NoObj
    /\ response = NoResponse
    /\ b_trace = <<>>
    /\ b_exit = Running

InitA ==
    /\ pc = "submit"
    /\ prompt_id = "unset"
    /\ trace = <<>>
    /\ serverHistory \in {NoObj, [k \in {OldId} |-> [status |-> "failed"]]}
    /\ clock = 0
    /\ exitCode = Running

\* lines 39-45: queue the workflow and read the identifier
Submit ==
    /\ pc = "submit"
    /\ \E resp \in PostResponses :
         LET q == queue_prompt(resp)
             id == IF q.ret.exc = "" THEN PyGet(q.ret.val, "prompt_id")
                   ELSE [exc |-> q.ret.exc, val |-> NoObj]
             start == <<EvPrint("Queuing generation...")>> \o q.events
         IN IF id.exc = ""
            THEN /\ prompt_id' = id.val
                 /\ trace' = trace \o start
                               \o <<EvPrint("Prompt queued! ID: " \o id.val),
                                    EvPrint("Waiting for completion (this may take a few minutes)...")>>
                 /\ pc' = "poll"
                 /\ exitCode' = exitCode
            ELSE /\ prompt_id' = prompt_id
                 /\ trace' = trace \o start \o Handler(id.exc)
                 /\ pc' = "done"
                 /\ exitCode' = Exited(NormalExit)
    /\ UNCHANGED <<serverHistory, clock, varsB>>

\* variant: the loop gives up after two attempts
Poll_GiveUp ==
    /\ pc = "poll"
    /\ Count(trace, "GET") < MaxPolls
    /\ \E resp \in GetResponses(serverHistory, prompt_id) :
         LET b == LoopBody(prompt_id, resp)
             last == Count(trace, "GET") >= 1
         IN /\ trace' = trace \o b.events \o (IF b.next = "raise" THEN Handler(b.exc) ELSE <<>>)
            /\ pc' = IF b.next = "sleep" /\ ~last THEN "sleep" ELSE "done"
            /\ exitCode' = IF b.next = "sleep" /\ ~last THEN exitCode ELSE Exited(NormalExit)
    /\ UNCHANGED <<prompt_id, serverHistory, clock, varsB>>

\* lines 47-55: one status request and what follows from its answer
Poll ==
    /\ pc = "poll"
    /\ Count(trace, "GET") < MaxPolls
    /\ \E resp \in GetResponses(serverHistory, prompt_id) :
         LET b == LoopBody(prompt_id, resp)
         IN /\ trace' = trace \o b.events \o (IF b.next = "raise" THEN Handler(b.exc) ELSE <<>>)
            /\ pc' = IF b.next = "sleep" THEN "sleep" ELSE "done"
            /\ exitCode' = IF b.next = "sleep" THEN exitCode ELSE Exited(NormalExit)
    /\ UNCHANGED <<prompt_id, serverHistory, clock, varsB>>

\* variant: the wait grows with the number of attempts
Sleep_Backoff ==
    /\ pc = "sleep"
    /\ trace' = Append(trace, EvSleep(SleepInterval * Count(trace, "GET")))
    /\ clock' = clock + SleepInterval * Count(trace, "GET")
    /\ pc' = "poll"
    /\ UNCHANGED <<prompt_id, serverHistory, exitCode, varsB>>

\* line 56: time.sleep(5)
Sleep ==
    /\ pc = "sleep"
    /\ trace' = Append(trace, EvSleep(SleepInterval))
    /\ clock' = clock + SleepInterval
    /\ pc' = "poll"
    /\ UNCHANGED <<prompt_id, serverHistory, exitCode, varsB>>

\* the server finishes the job: its history gains the identifier
ServerFinish ==
    /\ pc \in {"poll", "sleep"}
    /\ prompt_id \notin DOMAIN serverHistory
    /\ \E rec \in Records :
         serverHistory' = [k \in DOMAIN serverHistory \cup {prompt_id} |->
                              IF k = prompt_id THEN rec ELSE serverHistory[k]]
    /\ UNCHANGED <<pc, prompt_id, trace, clock, exitCode, varsB>>

NextA == Submit \/ Poll \/ Sleep \/ ServerFinish

Init == InitA /\ IdleB
Spec == Init /\ [][NextA]_vars

\* the script runs whenever it can: every blocking call returns
FairSpec == Spec /\ WF_vars(Submit) /\ WF_vars(Poll) /\ WF_vars(Sleep)

(***************************************************************************)
(* Flow B: generate_music.py.                                              *)
(***************************************************************************)
\* longest response body, in bytes
MaxBody == 2

Bytes == {1, 2}
Bodies == SeqsUpTo(Bytes, MaxBody)
OldData == <<9, 9, 9>>
Chr(b) == CASE b = 1 -> "a" [] b = 2 -> "b" [] OTHER -> "?"

\* response.text: the body decoded to text
RECURSIVE Text(_)
Text(content) == IF content = <<>> THEN "" ELSE Chr(Head(content)) \o Text(Tail(content))

Statuses == {200, 201, 404, 500}
MusicUrl == "https://api.elevenlabs.io/v1/text-to-music"
MusicResponses ==
    {[kind |-> "ConnectionError", status_code |-> 0, content |-> <<>>]}
    \cup {[kind |-> "http", status_code |-> st, content |-> c] : st \in Statuses, c \in Bodies}

Stems == {"out", "mix"}
Paths == Stems \cup {s \o ".mp3" : s \in Stems}
\* a path holds a file, or nothing, or lies in a directory that does not exist
Absent == [state |-> "absent", data |-> <<>>]
NoDir == [state |-> "nodir", data |-> <<>>]
File(data) == [state |-> "file", data |-> data]
FileStates == {Absent, NoDir, File(OldData)}

Script == "generate_music.py"
Argvs ==
    {<<Script>>, <<Script, "KEY">>, <<Script, "KEY", "lofi beat">>}
    \cup {<<Script, "KEY", "lofi beat", s>> : s \in Stems}
    \cup {<<Script, "KEY", "lofi beat", s, "extra">> : s \in Stems}

\* what a write that does not complete may leave in the file
Truncations(data, full) ==
    IF full THEN {data} ELSE {SubSeq(data, 1, n) : n \in 0..(Len(data) - 1)} \cup {<<>>}

\* variant: the file is opened for appending
WriteFile_Append(files, path, content, full, kept) ==
    IF files[path].state = "nodir"
    THEN [files |-> files, exc |-> "FileNotFoundError"]
    ELSE IF full
    THEN [files |-> [files EXCEPT ![path] = File(files[path].data \o content)], exc |-> ""]
    ELSE [files |-> [files EXCEPT ![path] = File(files[path].data \o kept)], exc |-> "OSError"]

\* with open(path, "wb") as f: f.write(content)
\* full: whether the device takes all of content; kept: what it takes otherwise
WriteFile(files, path, content, full, kept) ==
    IF files[path].state = "nodir"
    THEN [files |-> files, exc |-> "FileNotFoundError"]
    ELSE IF full
    THEN [files |-> [files EXCEPT ![path] = File(content)], exc |-> ""]
    ELSE [files |-> [files EXCEPT ![path] = File(kept)], exc |-> "OSError"]

OutPath(filename) == filename \o ".mp3"

\* variant: every 2xx status counts as success
IsSuccess_Any2xx(status_code) == status_code \in 200..299
IsSuccess(status_code) == status_code = 200

UsageExit == 1
\* the interpreter's exit status after an uncaught exception
UncaughtExit == 1

\* variant: the argument count is checked off by one
NeedsUsage_OffByOne(args) == Len(args) <= 4
NeedsUsage(args) == Len(args) < 4

IdleA ==
    /\ pc = "idle"
    /\ prompt_id = "unset"
    /\ trace = <<>>
    /\ serverHistory = NoObj
    /\ clock = 0
    /\ exitCode = Running

InitB ==
    /\ b_pc = "start"
    /\ argv \in Argvs
    /\ fs \in [Paths -> FileStates]
    /\ fs0 = fs
    /\ response = NoResponse
    /\ b_trace = <<>>
    /\ b_exit = Running

\* lines 8-27: the argument check, up to the progress line
CheckArgs ==
    /\ b_pc = "start"
    /\ IF NeedsUsage(argv)
       THEN /\ b_trace' = Append(b_trace,
                     EvPrint("Usage: python generate_music.py <API_KEY> <PROMPT> <FILENAME>"))
            /\ b_pc' = "done"
            /\ b_exit' = Exited(UsageExit)
       ELSE /\ b_trace' = Append(b_trace, EvPrint("Generating music for: " \o argv[3] \o "..."))
            /\ b_pc' = "request"
            /\ b_exit' = b_exit
    /\ UNCHANGED <<argv, fs, fs0, response, varsA>>

\* lines 29-37: the request and what is done with its response
Request ==
    /\ b_pc = "request"
    /\ \E resp \in MusicResponses, full \in BOOLEAN :
       \E kept \in Truncations(resp.content, full) :
         LET sent == <<EvPost(MusicUrl), Ev("resp", resp.kind, resp.status_code)>>
             path == OutPath(argv[4])
             w == WriteFile(fs, path, resp.content, full, kept)
         IN /\ b_pc' = "done"
            /\ response' = resp
            /\ IF resp.kind # "http"
               THEN /\ b_trace' = b_trace \o sent \o <<Ev("traceback", resp.kind, 0)>>
                    /\ fs' = fs
                    /\ b_exit' = Exited(UncaughtExit)
               ELSE IF IsSuccess(resp.status_code)
               THEN /\ fs' = w.files
                    /\ IF w.exc = ""
                       THEN /\ b_trace' = b_trace \o sent
                                 \o <<EvPrint("Success! Saved to " \o argv[4] \o ".mp3")>>
                            /\ b_exit' = Exited(NormalExit)
                       ELSE /\ b_trace' = b_trace \o sent \o <<Ev("traceback", w.exc, 0)>>
                            /\ b_exit' = Exited(UncaughtExit)
               ELSE /\ fs' = fs
                    /\ b_trace' = b_trace \o sent
                         \o <<EvPrint("Error: " \o ToString(resp.status_code)),
                              EvPrint(Text(resp.content))>>
                    /\ b_exit' = Exited(NormalExit)
    /\ UNCHANGED <<argv, fs0, varsA>>

NextB == CheckArgs \/ Request

InitFlowB == IdleA /\ InitB
SpecB == InitFlowB /\ [][NextB]_vars

(***************************************************************************)
(* Properties of Flow A.                                                   *)
(***************************************************************************)
Last(tr) == tr[Len(tr)]
SeenResp(what) == \E i \in DOMAIN trace : trace[i].k = "resp" /\ trace[i].s = what
Before(i, k) == {j \in 1..(i - 1) : trace[j].k = k}
After(i, k) == {j \in (i + 1)..Len(trace) : trace[j].k = k}
ErrorTexts ==
    {"'prompt_id'", "'outputs'", "'filename'",
     "argument of type 'int' is not iterable",
     "list indices must be integers or slices, not str",
     "'int' object is not subscriptable",
     "<urlopen error [Errno 111] Connection refused>",
     "Expecting value: line 1 column 1 (char 0)"}
IsErrorLine(e) == e.k = "print" /\ \E m \in ErrorTexts : e.s = "Error: " \o m
IsVideoLine(e) == e.k = "print" /\ e.s \in {"Video saved as: a.mp4", "Video saved as: a.png"}
ErrorLines == {i \in DOMAIN trace : IsErrorLine(trace[i])}
VideoLines == {i \in DOMAIN trace : IsVideoLine(trace[i])}

\* C1: once a status response has the job identifier as a key the loop has
\* made exactly one GET more than the responses without it, and it has
\* stopped: nothing but printing follows that response.
C1_PollingStops ==
    \A i \in DOMAIN trace :
        trace[i] = [k |-> "resp", s |-> "has id", n |-> 0] =>
            /\ After(i, "GET") = {} /\ After(i, "sleep") = {} /\ After(i, "POST") = {}
            /\ Count(trace, "GET")
                 = Cardinality({j \in Before(i, "resp") : trace[j].s = "no id"}) + 1
            /\ pc = "done"

\* three answers without the identifier, then one with it: four requests
C1_Witness ==
    /\ pc = "done"
    /\ SeenResp("has id")
    /\ Cardinality({j \in DOMAIN trace : trace[j].k = "resp" /\ trace[j].s = "no id"}) = 3
    /\ Count(trace, "GET") = 4

\* C2 (as claimed): after submission exactly one POST has been sent, and
\* either the flow holds a non-empty identifier, or it has failed visibly
\* and never polls.
C2_NonEmptyIdentifier ==
    pc # "submit" =>
        /\ Count(trace, "POST") = 1
        /\ \/ prompt_id \notin {"unset", ""}
           \/ /\ pc = "done"
              /\ IsErrorLine(Last(trace))
              /\ Count(trace, "GET") = 0

RecordFails(rec) ==
    \/ "outputs" \notin DOMAIN rec
    \/ \E n \in DOMAIN rec.outputs :
         /\ "videos" \in DOMAIN rec.outputs[n]
         /\ \E v \in DOMAIN rec.outputs[n].videos :
              "filename" \notin DOMAIN rec.outputs[n].videos[v]
FailureSeen ==
    \/ \E what \in {"URLError", "JSONDecodeError", "no prompt_id", "not a mapping", "lists id"} :
         SeenResp(what)
    \/ SeenResp("has id") /\ RecordFails(serverHistory[prompt_id])

\* C7: every failure (transport or decoding error, missing prompt_id, a
\* status answer that is no mapping, a field missing in the result record)
\* ends the flow at once with one "Error: ..." line as its last output and
\* a normal exit status; an error line is printed for no other reason.
C7_ErrorHandling ==
    /\ FailureSeen =>
         /\ pc = "done"
         /\ exitCode = <<0>>
         /\ ErrorLines = {Len(trace)}
    /\ ErrorLines # {} => FailureSeen

C7_Witness ==
    /\ FailureSeen
    /\ Count(trace, "GET") = 2
    /\ SeenResp("has id")

\* C9: a sleep is always 5 seconds, follows a status answer without the
\* identifier and is followed by the next GET; every GET but the first
\* follows a sleep; nothing sleeps after the answer that has the
\* identifier, so a completed run of k GETs has slept k-1 times.
C9_Alternation ==
    /\ \A i \in DOMAIN trace :
         trace[i].k = "sleep" =>
            /\ trace[i].n = 5
            /\ i > 2
            /\ trace[i - 1] = [k |-> "resp", s |-> "no id", n |-> 0]
            /\ trace[i - 2].k = "GET"
            /\ i < Len(trace) => trace[i + 1].k = "GET"
    /\ \A i \in DOMAIN trace :
         (trace[i].k = "GET" /\ Before(i, "GET") # {}) => trace[i - 1].k = "sleep"
    /\ \A i \in DOMAIN trace :
         trace[i] = [k |-> "resp", s |-> "has id", n |-> 0] => After(i, "sleep") = {}
    /\ (pc = "done" /\ SeenResp("has id")) => Count(trace, "sleep") = Count(trace, "GET") - 1
    /\ clock = 5 * Count(trace, "sleep")

C9_Witness ==
    /\ pc = "done"
    /\ SeenResp("has id")
    /\ Count(trace, "GET") = 3
    /\ Count(trace, "sleep") = 2

NamedVideos(slot) ==
    IF "videos" \in DOMAIN slot
    THEN {v \in DOMAIN slot.videos : "filename" \in DOMAIN slot.videos[v]}
    ELSE {}
ArtifactCount(rec) ==
    IF "outputs" \notin DOMAIN rec THEN 0
    ELSE Cardinality(UNION {{<<n, v>> : v \in NamedVideos(rec.outputs[n])} : n \in DOMAIN rec.outputs})

\* C10: one POST to /prompt, before every GET; every GET goes to
\* /history/{id} for the id of the POST's answer; no GET when the POST
\* fails or answers without prompt_id; "Generation complete!" is printed at
\* most once, the video lines at most once per artifact, and both only
\* after an answer that contains the identifier.
C10_RequestOrdering ==
    /\ Count(trace, "POST") <= 1
    /\ pc # "submit" => Count(trace, "POST") = 1
    /\ \A p \in Indices(trace, "POST") : trace[p].s = "http://127.0.0.1:8000/prompt"
    /\ \A g \in Indices(trace, "GET") :
         \E p \in Before(g, "POST") : \E id \in Ids :
            /\ trace[p + 1] = [k |-> "resp", s |-> "prompt_id=" \o id, n |-> 0]
            /\ trace[g].s = "http://127.0.0.1:8000/history/" \o id
    /\ (\E p \in Indices(trace, "POST") :
            /\ p < Len(trace)
            /\ trace[p + 1].s \in {"URLError", "JSONDecodeError", "no prompt_id"})
         => Count(trace, "GET") = 0
    /\ LET complete == {i \in DOMAIN trace : trace[i] = [k |-> "print", s |-> "Generation complete!", n |-> 0]}
       IN /\ Cardinality(complete) <= 1
          /\ \A c \in complete : \E r \in Before(c, "resp") : trace[r].s \in {"has id", "lists id"}
    /\ VideoLines # {} =>
         /\ \A v \in VideoLines : \E r \in Before(v, "resp") : trace[r].s = "has id"
         /\ Cardinality(VideoLines) <= ArtifactCount(serverHistory[prompt_id])

C10_Witness ==
    /\ pc = "done"
    /\ Count(trace, "GET") = 2
    /\ Cardinality(VideoLines) = 3
    /\ prompt_id = "id1"

ListsOf(slot) == {slot[key] : key \in DOMAIN slot}
IsShaped(list) == \A v \in DOMAIN list : "filename" \in DOMAIN list[v]
ShapedCount(rec) ==
    Cardinality(UNION {{<<n, v>> : v \in UNION {DOMAIN l : l \in {x \in ListsOf(rec.outputs[n]) : IsShaped(x)}}}
                         : n \in DOMAIN rec.outputs})

\* C3 (as claimed): the flow prints one line per artifact descriptor of
\* every output slot that holds a list of entries with a filename field,
\* and raises no error whatever the other slots look like.
C3_AsClaimed ==
    (SeenResp("has id") /\ "outputs" \in DOMAIN serverHistory[prompt_id]) =>
        /\ Cardinality(VideoLines) = ShapedCount(serverHistory[prompt_id])
        /\ ErrorLines = {}

RECURSIVE FlatVideos(_)
FlatVideos(outputs) ==
    IF outputs = <<>> THEN <<>>
    ELSE (IF "videos" \in DOMAIN Head(outputs) THEN Head(outputs).videos ELSE <<>>)
           \o FlatVideos(Tail(outputs))
NamedPrefix(list) ==
    LET bad == {i \in DOMAIN list : "filename" \notin DOMAIN list[i]}
    IN IF bad = {} THEN Len(list) ELSE (CHOOSE m \in bad : \A x \in bad : m <= x) - 1

\* C3 (amended): the flow prints, in order, one line per descriptor kept
\* under the key 'videos' of any output slot, up to the first such
\* descriptor without a filename; slots without that key are ignored.
\* With every descriptor named there is no error; a descriptor without a
\* filename, or a record without outputs, ends the flow with an error line.
C3_Extraction ==
    SeenResp("has id") =>
        LET rec == serverHistory[prompt_id]
            printed == SelectSeq(trace, IsVideoLine)
        IN IF "outputs" \notin DOMAIN rec
           THEN /\ printed = <<>>
                /\ Last(trace) = [k |-> "print", s |-> "Error: 'outputs'", n |-> 0]
           ELSE LET flat == FlatVideos(rec.outputs)
                    named == NamedPrefix(flat)
                IN /\ Len(printed) = named
                   /\ \A i \in 1..named : printed[i].s = "Video saved as: " \o flat[i].filename
                   /\ named = Len(flat) => (ErrorLines = {} /\ pc = "done" /\ exitCode = <<0>>)
                   /\ named < Len(flat) =>
                        Last(trace) = [k |-> "print", s |-> "Error: 'filename'", n |-> 0]

\* two video slots, of two named descriptors and of one: three lines
C3_Witness ==
    /\ pc = "done"
    /\ SeenResp("has id")
    /\ "outputs" \in DOMAIN serverHistory[prompt_id]
    /\ Len(serverHistory[prompt_id].outputs) = 2
    /\ \A n \in {1, 2} : "videos" \in DOMAIN serverHistory[prompt_id].outputs[n]
    /\ Len(serverHistory[prompt_id].outputs[1].videos) = 2
    /\ Cardinality(VideoLines) = 3
    /\ ErrorLines = {}

\* C8: the flow ends only after an answer with the identifier or an error;
\* an answer without the identifier always sends the loop to sleep and the
\* sleep back to polling, whatever the number of attempts so far; and once
\* the server's history holds the identifier the flow ends.
C8_UnboundedPolling ==
    /\ [](pc = "done" => (SeenResp("has id") \/ ErrorLines # {}))
    /\ []((trace # <<>> /\ Last(trace) = [k |-> "resp", s |-> "no id", n |-> 0]) => pc = "sleep")
    /\ (pc = "sleep") ~> (pc = "poll")
    /\ (pc \in {"poll", "sleep"} /\ prompt_id \in DOMAIN serverHistory
           /\ Count(trace, "GET") < MaxPolls) ~> (pc = "done")

\* still polling after three answers without the identifier, the job now done
C8_Witness ==
    /\ pc = "poll"
    /\ Count(trace, "sleep") = 3
    /\ prompt_id \in DOMAIN serverHistory

(***************************************************************************)
(* Properties of Flow B.                                                   *)
(***************************************************************************)
Got(status) == b_pc = "done" /\ response.kind = "http" /\ response.status_code = status
Tracebacks == Indices(b_trace, "traceback")

\* C4 (as claimed): after a 200 response with body B the file <stem>.mp3
\* holds exactly B and the success message is printed, whatever the stem.
C4_AsClaimed ==
    Got(200) =>
        /\ fs[argv[4] \o ".mp3"] = [state |-> "file", data |-> response.content]
        /\ [k |-> "print", s |-> "Success! Saved to " \o argv[4] \o ".mp3", n |-> 0]
             \in {b_trace[i] : i \in DOMAIN b_trace}

\* C4 (amended): after a 200 response with body B, if <stem>.mp3 could be
\* opened and written, it holds exactly B (earlier content replaced), no
\* other file has changed, and the success message is the last output;
\* if not, the success message is not printed, the script ends with the
\* uncaught exception, and the file is unchanged or holds a part of B.
C4_SuccessPath ==
    Got(200) =>
        LET path == argv[4] \o ".mp3"
            success == [k |-> "print", s |-> "Success! Saved to " \o argv[4] \o ".mp3", n |-> 0]
        IN /\ \A q \in DOMAIN fs : q # path => fs[q] = fs0[q]
           /\ IF Tracebacks = {}
              THEN /\ fs[path] = [state |-> "file", data |-> response.content]
                   /\ Last(b_trace) = success
                   /\ b_exit = <<0>>
              ELSE /\ success \notin {b_trace[i] : i \in DOMAIN b_trace}
                   /\ b_exit = <<1>>
                   /\ \/ fs[path] = fs0[path]
                      \/ /\ fs[path].state = "file"
                         /\ \E n \in 0..Len(response.content) :
                              fs[path].data = SubSeq(response.content, 1, n)

\* an older, longer file is replaced by a two-byte body
C4_Witness ==
    /\ Got(200)
    /\ Tracebacks = {}
    /\ argv[4] = "mix"
    /\ fs0["mix.mp3"] = [state |-> "file", data |-> <<9, 9, 9>>]
    /\ fs["mix.mp3"] = [state |-> "file", data |-> <<1, 2>>]

\* C5: after a response with a status other than 200 the file system is as
\* it was, the status code and the body text have been printed, and the
\* exit status is the normal one.
C5_FailurePath ==
    (b_pc = "done" /\ response.kind = "http" /\ response.status_code # 200) =>
        /\ fs = fs0
        /\ \E i \in DOMAIN b_trace :
             /\ b_trace[i] = [k |-> "print", s |-> "Error: " \o ToString(response.status_code), n |-> 0]
             /\ i < Len(b_trace)
             /\ b_trace[i + 1].k = "print"
             /\ b_trace[i + 1].s = Text(response.content)
        /\ b_exit = <<0>>

C5_Witness ==
    /\ Got(201)
    /\ response.content = <<2, 1>>
    /\ fs0["out.mp3"] = [state |-> "absent", data |-> <<>>]
    /\ argv[4] = "out"

\* C6: with fewer than 3 command-line arguments the script prints the usage
\* text and exits with status 1, sends nothing and writes nothing; with 3
\* or more it sends exactly one POST.
C6_ArgumentCheck ==
    /\ Count(b_trace, "POST") <= 1
    /\ Len(argv) - 1 < 3 =>
         /\ Count(b_trace, "POST") = 0
         /\ fs = fs0
         /\ b_pc # "request"
         /\ b_pc = "done" =>
              /\ b_trace = <<[k |-> "print",
                              s |-> "Usage: python generate_music.py <API_KEY> <PROMPT> <FILENAME>",
                              n |-> 0]>>
              /\ b_exit = <<1>>
    /\ (Len(argv) - 1 >= 3 /\ b_pc = "done") =>
         /\ Count(b_trace, "POST") = 1
         /\ \A i \in Indices(b_trace, "POST") :
              b_trace[i].s = "https://api.elevenlabs.io/v1/text-to-music"

C6_Witness ==
    /\ b_pc = "done"
    /\ Len(argv) - 1 = 2
    /\ b_exit = <<1>>

====
